---- MODULE Spec2Model ----
(***************************************************************************)
(* eink-arrow (src/src/main.rs): an arrow glyph on an e-ink panel, moved   *)
(* and rotated by two push-buttons.  Two GPIO interrupt callbacks send     *)
(* ArrowMessage values over an mpsc channel; the main thread receives      *)
(* them one at a time, applies each to the Arrow under a mutex, redraws    *)
(* the framebuffer and refreshes the panel.                                *)
(*                                                                         *)
(* Three specifications share the definitions of the Shape Model:          *)
(*   Spec       the whole program from line 184 on (callbacks + loop)      *)
(*   SpecShape  an Arrow in isolation, driven by arbitrary messages        *)
(*   SpecQueue  the Control Loop alone over a pre-filled, closed queue     *)
(***************************************************************************)
EXTENDS Integers, Sequences, FiniteSets, TLC

(***************************************************************************)
(* Bounds of the model (not program constants).                            *)
(***************************************************************************)
\* interrupts the two button lines deliver in one run of Spec
MaxInterrupts == 3
\* messages applied to the isolated Arrow in one run of SpecShape
MaxOps == 4
\* length of the pre-filled queue of SpecQueue
MaxQueue == 3

(***************************************************************************)
(* Program constants.                                                      *)
(***************************************************************************)
\* i32::MAX, the width of Arrow.x / Arrow.y / Arrow.radius (lines 23-25)
I32Max == 2147483647
I32Min == (-I32Max) - 1
\* Arrow::new(20), line 163
InitialRadius == 20
\* ArrowMessage::MoveForward(100), line 193
MoveDistance == 100

(***************************************************************************)
(* i32 arithmetic.  `a += b` and `a -= b` on i32 either wrap modulo 2^32   *)
(* (overflow checks off, the release profile) or panic (overflow checks    *)
(* on, the dev profile).  The operators below compute the wrapped result   *)
(* and whether the exact result left the i32 range, without ever forming   *)
(* an intermediate value outside that range.                               *)
(***************************************************************************)
AddOverflows(a, b) ==
    \/ (b > 0 /\ a > I32Max - b)
    \/ (b < 0 /\ a < I32Min - b)

SubOverflows(a, b) ==
    \/ (b < 0 /\ a > I32Max + b)
    \/ (b > 0 /\ a < I32Min + b)

\* (a + b) mod 2^32, as a signed 32-bit value
WrappingAdd(a, b) ==
    IF b > 0 /\ a > I32Max - b
        THEN ((a - I32Max) - 1) + ((b - I32Max) - 1)
    ELSE IF b < 0 /\ a < I32Min - b
        THEN ((a + I32Max) + 1) + ((b + I32Max) + 1)
    ELSE a + b

\* (a - b) mod 2^32, as a signed 32-bit value
WrappingSub(a, b) ==
    IF b < 0 /\ a > I32Max + b
        THEN ((a - I32Max) - 1) - ((b + I32Max) + 1)
    ELSE IF b > 0 /\ a < I32Min + b
        THEN ((a + I32Max) + 1) - ((b - I32Max) - 1)
    ELSE a - b

(***************************************************************************)
(* Shape Model: struct Arrow and impl Arrow.                               *)
(***************************************************************************)
\* DisplayRotation::{Rotate0, Rotate90, Rotate180, Rotate270}
Headings == {0, 90, 180, 270}

\* Arrow::new(radius)
ArrowNew(radius) ==
    [x |-> radius, y |-> radius, radius |-> radius, rotation |-> 0]

\* a rotate() whose 180 arm returns to 0
rotate_skips_270(a) ==
    [a EXCEPT !.rotation = CASE a.rotation = 0   -> 90
                             [] a.rotation = 90  -> 180
                             [] a.rotation = 180 -> 0
                             [] a.rotation = 270 -> 0]

\* Arrow::rotate
rotate(a) ==
    [a EXCEPT !.rotation = CASE a.rotation = 0   -> 90
                             [] a.rotation = 90  -> 180
                             [] a.rotation = 180 -> 270
                             [] a.rotation = 270 -> 0]

\* Arrow::move_forward: does the arithmetic of the selected arm overflow?
MoveOverflows(a, distance) ==
    CASE a.rotation = 0   -> AddOverflows(a.y, distance)
      [] a.rotation = 90  -> SubOverflows(a.x, distance)
      [] a.rotation = 180 -> SubOverflows(a.y, distance)
      [] a.rotation = 270 -> AddOverflows(a.x, distance)

\* a move_forward() whose 90 and 270 arms have their signs exchanged
move_forward_signs_swapped(a, distance) ==
    CASE a.rotation = 0   -> [a EXCEPT !.y = WrappingAdd(a.y, distance)]
      [] a.rotation = 90  -> [a EXCEPT !.x = WrappingAdd(a.x, distance)]
      [] a.rotation = 180 -> [a EXCEPT !.y = WrappingSub(a.y, distance)]
      [] a.rotation = 270 -> [a EXCEPT !.x = WrappingSub(a.x, distance)]

\* a move_forward that resets the heading
move_forward_resets_heading(a, distance) ==
    CASE a.rotation = 0   ->
           [a EXCEPT !.y = WrappingAdd(a.y, distance)]
      [] a.rotation = 90  ->
           [a EXCEPT !.x = WrappingSub(a.x, distance), !.rotation = 0]
      [] a.rotation = 180 ->
           [a EXCEPT !.y = WrappingSub(a.y, distance), !.rotation = 0]
      [] a.rotation = 270 ->
           [a EXCEPT !.x = WrappingAdd(a.x, distance), !.rotation = 0]

\* Arrow::move_forward, the value written when the call returns
move_forward(a, distance) ==
    CASE a.rotation = 0   -> [a EXCEPT !.y = WrappingAdd(a.y, distance)]
      [] a.rotation = 90  -> [a EXCEPT !.x = WrappingSub(a.x, distance)]
      [] a.rotation = 180 -> [a EXCEPT !.y = WrappingSub(a.y, distance)]
      [] a.rotation = 270 -> [a EXCEPT !.x = WrappingAdd(a.x, distance)]

(***************************************************************************)
(* Event Type: enum ArrowMessage.                                          *)
(***************************************************************************)
Rotate == [kind |-> "Rotate", distance |-> 0]
MoveForward(d) == [kind |-> "MoveForward", distance |-> d]

\* the match of lines 215-218: does applying the message panic?
\* (only an overflowing move_forward in a build with overflow checks)
ApplyPanics(a, m, checks) ==
    m.kind = "MoveForward" /\ checks /\ MoveOverflows(a, m.distance)

\* a match whose arms are exchanged
ApplyMessageArmsSwapped(a, m) ==
    IF m.kind = "MoveForward" THEN rotate(a) ELSE move_forward(a, m.distance)

\* the match of lines 215-218: the Arrow after the message was applied
ApplyMessage(a, m) ==
    IF m.kind = "MoveForward" THEN move_forward(a, m.distance) ELSE rotate(a)

(***************************************************************************)
(* Arrow::draw: the two primitives computed from (x, y, radius, rotation). *)
(* A rectangle is <<left, top, width, height>>, a triangle the six         *)
(* coordinates of its three vertices in the order they are passed to       *)
(* Triangle::new; <<>> is a primitive that is not in the framebuffer.      *)
(***************************************************************************)
\* self.radius / 2: i32 division truncates toward zero
HalfRadius(r) == IF r >= 0 THEN r \div 2 ELSE -((-r) \div 2)

\* self.radius as u32, for the radii the program constructs (radius >= 0)
AsU32(r) == r

\* lines 42-82, the rectangle of each arm
ShaftOf(a) ==
    LET h == HalfRadius(a.radius)
        w == AsU32(a.radius)
    IN  CASE a.rotation = 0   ->
               <<WrappingSub(a.x, h), WrappingSub(a.y, a.radius), w, w>>
          [] a.rotation = 90  ->
               <<a.x, WrappingSub(a.y, h), w, w>>
          [] a.rotation = 180 ->
               <<WrappingSub(a.x, h), a.y, w, w>>
          [] a.rotation = 270 ->
               <<WrappingSub(a.x, a.radius), WrappingSub(a.y, h), w, w>>

\* a head whose 90 and 270 arms are exchanged
HeadOfSidewaysArmsSwapped(a) ==
    LET r == a.radius
    IN  CASE a.rotation = 0   ->
               <<WrappingSub(a.x, r), a.y,
                 a.x, WrappingAdd(a.y, r),
                 WrappingAdd(a.x, r), a.y>>
          [] a.rotation = 90  ->
               <<a.x, WrappingSub(a.y, r),
                 WrappingAdd(a.x, r), a.y,
                 a.x, WrappingAdd(a.y, r)>>
          [] a.rotation = 180 ->
               <<WrappingSub(a.x, r), a.y,
                 a.x, WrappingSub(a.y, r),
                 WrappingAdd(a.x, r), a.y>>
          [] a.rotation = 270 ->
               <<a.x, WrappingSub(a.y, r),
                 WrappingSub(a.x, r), a.y,
                 a.x, WrappingAdd(a.y, r)>>

\* lines 42-82, the triangle of each arm
HeadOf(a) ==
    LET r == a.radius
    IN  CASE a.rotation = 0   ->
               <<WrappingSub(a.x, r), a.y,
                 a.x, WrappingAdd(a.y, r),
                 WrappingAdd(a.x, r), a.y>>
          [] a.rotation = 90  ->
               <<a.x, WrappingSub(a.y, r),
                 WrappingSub(a.x, r), a.y,
                 a.x, WrappingAdd(a.y, r)>>
          [] a.rotation = 180 ->
               <<WrappingSub(a.x, r), a.y,
                 a.x, WrappingSub(a.y, r),
                 WrappingAdd(a.x, r), a.y>>
          [] a.rotation = 270 ->
               <<a.x, WrappingSub(a.y, r),
                 WrappingAdd(a.x, r), a.y,
                 a.x, WrappingAdd(a.y, r)>>

\* does any coordinate computed by the selected arm of draw overflow?
DrawOverflows(a) ==
    LET r == a.radius
        h == HalfRadius(a.radius)
    IN  CASE a.rotation = 0   ->
               \/ SubOverflows(a.x, h) \/ SubOverflows(a.y, r)
               \/ SubOverflows(a.x, r) \/ AddOverflows(a.y, r)
               \/ AddOverflows(a.x, r)
          [] a.rotation = 90  ->
               \/ SubOverflows(a.y, h) \/ SubOverflows(a.y, r)
               \/ SubOverflows(a.x, r) \/ AddOverflows(a.y, r)
          [] a.rotation = 180 ->
               \/ SubOverflows(a.x, h) \/ SubOverflows(a.x, r)
               \/ SubOverflows(a.y, r) \/ AddOverflows(a.x, r)
          [] a.rotation = 270 ->
               \/ SubOverflows(a.x, r) \/ SubOverflows(a.y, h)
               \/ SubOverflows(a.y, r) \/ AddOverflows(a.x, r)
               \/ AddOverflows(a.y, r)

\* display.clear_buffer(Color::White), lines 40 and 165
ClearedBuffer == [rect |-> <<>>, tri |-> <<>>]

\* Arrow::draw: the framebuffer it leaves.  rectOk / triOk are the results
\* of the two primitive draws, both discarded (`let _ =`, lines 83-88).
DrawInto(a, rectOk, triOk) ==
    [rect |-> IF rectOk THEN ShaftOf(a) ELSE <<>>,
     tri  |-> IF triOk  THEN HeadOf(a)  ELSE <<>>]

(***************************************************************************)
(* State of the program from line 184 on.                                  *)
(***************************************************************************)
VARIABLES
    overflowChecks, \* build profile: TRUE = overflowing i32 arithmetic panics
    arrow,          \* the Arrow inside arrow_mutex (line 184)
    lockHeld,       \* the MutexGuard `arrow` of line 214 is alive
    poisoned,       \* arrow_mutex was poisoned by a panic under the guard
    display,        \* the framebuffer `display` (Display2in7b, line 162)
    panel,          \* the e-ink panel: frame uploaded, frame shown, asleep
    queue,          \* messages in the mpsc channel of line 186
    rxAlive,        \* the Receiver `rx` has not been dropped
    txAlive,        \* per button: its callback, which owns a Sender, is alive
    pending,        \* per button: interrupts delivered, callback not yet run
    received,       \* the loop variable `received` of line 208
    pc,             \* position of the main thread
    outcome,        \* how main ended: "running", "ok", "err", "panic"
    nInterrupts,    \* history: interrupts delivered so far
    sent,           \* history: per button, messages enqueued so far
    dequeued,       \* history: the entries the loop received, in order
    trace,          \* history: the steps the main thread completed
    sendFailed,     \* history: per button, its send(..).unwrap() panicked
    start,          \* SpecShape: the isolated Arrow before any message
    ops,            \* SpecShape: the calls made on it, in order;
                    \* SpecQueue: the burst the queue held at first
    halted          \* SpecShape: a move_forward panicked

vars ==
    <<overflowChecks, arrow, lockHeld, poisoned, display, panel, queue,
      rxAlive, txAlive, pending, received, pc, outcome, nInterrupts, sent,
      dequeued, trace, sendFailed, start, ops, halted>>

\* what SpecShape alone uses
shapeVars == <<start, ops, halted>>
\* what the interrupt side writes besides the queue
bridgeVars == <<txAlive, pending, nInterrupts, sent, sendFailed>>
\* what the main thread writes besides the queue
loopVars ==
    <<arrow, lockHeld, poisoned, display, panel, rxAlive, received, pc,
      outcome, dequeued, trace>>

\* the two buttons: move_button_pin (GPIO 20) and rotate_button_pin (GPIO 21)
Producers == {"move", "rotate"}

\* rppal::gpio::Level
Levels == {"Low", "High"}

\* the message each callback constructs (lines 193 and 201)
MessageOf(p) == IF p = "move" THEN MoveForward(MoveDistance) ELSE Rotate

\* a queue entry: the message, and (history) who sent it, as its how-manieth
\* message, for the how-manieth interrupt overall
Entry(m, p, n, t) == [msg |-> m, src |-> p, seq |-> n, t |-> t]

NoEntry == Entry([kind |-> "None", distance |-> 0], "none", 0, 0)

\* lines 162-173 and 184-206: the Arrow is new, the first frame was drawn
\* and shown, the channel is empty, both callbacks are registered, and the
\* main thread is about to block in `for received in rx`.
Init ==
    /\ overflowChecks \in BOOLEAN
    /\ arrow = ArrowNew(InitialRadius)
    /\ lockHeld = FALSE
    /\ poisoned = FALSE
    /\ \E rectOk \in BOOLEAN, triOk \in BOOLEAN :
          /\ display = DrawInto(ArrowNew(InitialRadius), rectOk, triOk)
          /\ panel = [frame |-> display, shown |-> display, asleep |-> FALSE]
    /\ queue = <<>>
    /\ rxAlive = TRUE
    /\ txAlive = [p \in Producers |-> TRUE]
    /\ pending = [p \in Producers |-> <<>>]
    /\ received = NoEntry
    /\ pc = "recv"
    /\ outcome = "running"
    /\ nInterrupts = 0
    /\ sent = [p \in Producers |-> 0]
    /\ dequeued = <<>>
    /\ trace = <<>>
    /\ sendFailed = [p \in Producers |-> FALSE]
    /\ start = ArrowNew(InitialRadius)
    /\ ops = <<>>
    /\ halted = FALSE

(***************************************************************************)
(* Interrupt-to-Event Bridge (lines 189-204).                              *)
(***************************************************************************)
\* A falling edge on button p's line: the GPIO subsystem hands an interrupt,
\* with the level it read, to the interrupt thread of that pin.
Interrupt(p, level) ==
    /\ pc # "exited"
    /\ txAlive[p]
    /\ nInterrupts < MaxInterrupts
    /\ nInterrupts' = nInterrupts + 1
    /\ pending' = [pending EXCEPT
                     ![p] = Append(@, [level |-> level, t |-> nInterrupts + 1])]
    /\ UNCHANGED <<overflowChecks, queue, txAlive, sent, sendFailed>>
    /\ UNCHANGED loopVars
    /\ UNCHANGED shapeVars

\* a callback that puts its message at the front of the queue
CallbackSendsToFront(p) ==
    /\ pc # "exited"
    /\ txAlive[p]
    /\ pending[p] # <<>>
    /\ rxAlive
    /\ queue' = <<Entry(MessageOf(p), p, sent[p] + 1, Head(pending[p]).t)>>
                   \o queue
    /\ sent' = [sent EXCEPT ![p] = @ + 1]
    /\ pending' = [pending EXCEPT ![p] = Tail(@)]
    /\ UNCHANGED <<overflowChecks, nInterrupts, txAlive, sendFailed>>
    /\ UNCHANGED loopVars
    /\ UNCHANGED shapeVars

\* a callback without the `if let Level::Low = level` filter
CallbackIgnoresLevel(p) ==
    /\ pc # "exited"
    /\ txAlive[p]
    /\ pending[p] # <<>>
    /\ LET i == Head(pending[p])
       IN  IF rxAlive
           THEN /\ queue' = Append(queue,
                              Entry(MessageOf(p), p, sent[p] + 1, i.t))
                /\ sent' = [sent EXCEPT ![p] = @ + 1]
                /\ pending' = [pending EXCEPT ![p] = Tail(@)]
                /\ UNCHANGED <<txAlive, sendFailed>>
           ELSE /\ sendFailed' = [sendFailed EXCEPT ![p] = TRUE]
                /\ txAlive' = [txAlive EXCEPT ![p] = FALSE]
                /\ pending' = [pending EXCEPT ![p] = <<>>]
                /\ UNCHANGED <<queue, sent>>
    /\ UNCHANGED <<overflowChecks, nInterrupts>>
    /\ UNCHANGED loopVars
    /\ UNCHANGED shapeVars

\* a callback that locks the Arrow and applies its message itself instead of
\* sending it
CallbackAppliesItself(p) ==
    /\ pc # "exited"
    /\ txAlive[p]
    /\ pending[p] # <<>>
    /\ ~lockHeld
    /\ arrow' = IF Head(pending[p]).level = "Low"
                    THEN ApplyMessage(arrow, MessageOf(p))
                    ELSE arrow
    /\ pending' = [pending EXCEPT ![p] = Tail(@)]
    /\ UNCHANGED <<overflowChecks, queue, nInterrupts, sent, txAlive,
                   sendFailed>>
    /\ UNCHANGED <<lockHeld, poisoned, display, panel, rxAlive, received, pc,
                   outcome, dequeued, trace>>
    /\ UNCHANGED shapeVars

\* a callback on a rendezvous channel: its send waits until the loop is
\* back in its receive and the queue is empty
CallbackWaitsForLoop(p) ==
    /\ pc # "exited"
    /\ txAlive[p]
    /\ pending[p] # <<>>
    /\ LET i == Head(pending[p])
       IN  IF i.level = "Low"
           THEN IF rxAlive
                THEN /\ pc = "recv"
                     /\ queue = <<>>
                     /\ queue' = Append(queue,
                                   Entry(MessageOf(p), p, sent[p] + 1, i.t))
                     /\ sent' = [sent EXCEPT ![p] = @ + 1]
                     /\ pending' = [pending EXCEPT ![p] = Tail(@)]
                     /\ UNCHANGED <<txAlive, sendFailed>>
                ELSE /\ sendFailed' = [sendFailed EXCEPT ![p] = TRUE]
                     /\ txAlive' = [txAlive EXCEPT ![p] = FALSE]
                     /\ pending' = [pending EXCEPT ![p] = <<>>]
                     /\ UNCHANGED <<queue, sent>>
           ELSE /\ pending' = [pending EXCEPT ![p] = Tail(@)]
                /\ UNCHANGED <<queue, sent, txAlive, sendFailed>>
    /\ UNCHANGED <<overflowChecks, nInterrupts>>
    /\ UNCHANGED loopVars
    /\ UNCHANGED shapeVars

\* a callback that discards the result of send (`let _ = tx.send(..)`)
CallbackDiscardsSendError(p) ==
    /\ pc # "exited"
    /\ txAlive[p]
    /\ pending[p] # <<>>
    /\ LET i == Head(pending[p])
       IN  IF i.level = "Low" /\ rxAlive
           THEN /\ queue' = Append(queue,
                              Entry(MessageOf(p), p, sent[p] + 1, i.t))
                /\ sent' = [sent EXCEPT ![p] = @ + 1]
                /\ pending' = [pending EXCEPT ![p] = Tail(@)]
                /\ UNCHANGED <<txAlive, sendFailed>>
           ELSE /\ pending' = [pending EXCEPT ![p] = Tail(@)]
                /\ UNCHANGED <<queue, sent, txAlive, sendFailed>>
    /\ UNCHANGED <<overflowChecks, nInterrupts>>
    /\ UNCHANGED loopVars
    /\ UNCHANGED shapeVars

\* The closure of button p runs for its oldest pending interrupt: on Low it
\* sends its message; send fails when rx is gone and unwrap() then panics,
\* which ends the interrupt thread and drops the closure with its Sender.
Callback(p) ==
    /\ pc # "exited"
    /\ txAlive[p]
    /\ pending[p] # <<>>
    /\ LET i == Head(pending[p])
       IN  IF i.level = "Low"
           THEN IF rxAlive
                THEN /\ queue' = Append(queue,
                                   Entry(MessageOf(p), p, sent[p] + 1, i.t))
                     /\ sent' = [sent EXCEPT ![p] = @ + 1]
                     /\ pending' = [pending EXCEPT ![p] = Tail(@)]
                     /\ UNCHANGED <<txAlive, sendFailed>>
                ELSE /\ sendFailed' = [sendFailed EXCEPT ![p] = TRUE]
                     /\ txAlive' = [txAlive EXCEPT ![p] = FALSE]
                     /\ pending' = [pending EXCEPT ![p] = <<>>]
                     /\ UNCHANGED <<queue, sent>>
           ELSE /\ pending' = [pending EXCEPT ![p] = Tail(@)]
                /\ UNCHANGED <<queue, sent, txAlive, sendFailed>>
    /\ UNCHANGED <<overflowChecks, nInterrupts>>
    /\ UNCHANGED loopVars
    /\ UNCHANGED shapeVars

\* The interrupt registration of button p ends while main still runs: the
\* GPIO subsystem drops the closure, and with it the Sender it captured.
ProducerDropped(p) ==
    /\ pc # "exited"
    /\ txAlive[p]
    /\ txAlive' = [txAlive EXCEPT ![p] = FALSE]
    /\ pending' = [pending EXCEPT ![p] = <<>>]
    /\ UNCHANGED <<overflowChecks, queue, nInterrupts, sent, sendFailed>>
    /\ UNCHANGED loopVars
    /\ UNCHANGED shapeVars

(***************************************************************************)
(* Control Loop (lines 208-229), one action per statement.                 *)
(***************************************************************************)
\* every Sender of the channel has been dropped
AllSendersDropped == \A p \in Producers : ~txAlive[p]

\* the main thread leaves the loop by a panic: the stack unwinds, the guard
\* (when alive) poisons the mutex as it drops, and rx is dropped
MainPanics(step) ==
    /\ poisoned' = (poisoned \/ lockHeld)
    /\ lockHeld' = FALSE
    /\ rxAlive' = FALSE
    /\ received' = NoEntry
    /\ outcome' = "panic"
    /\ trace' = Append(trace, step)
    /\ pc' = "teardown"

\* a receive that takes everything queued and keeps only the newest message
ReceiveCoalesces ==
    /\ pc = "recv"
    /\ queue # <<>>
    /\ received' = queue[Len(queue)]
    /\ queue' = <<>>
    /\ dequeued' = dequeued \o queue
    /\ trace' = Append(trace, "recv")
    /\ pc' = "lock"
    /\ UNCHANGED <<overflowChecks, arrow, lockHeld, poisoned, display, panel,
                   rxAlive, outcome>>
    /\ UNCHANGED bridgeVars
    /\ UNCHANGED shapeVars

\* a receive that yields the newest message instead of the oldest
ReceiveNewest ==
    /\ pc = "recv"
    /\ queue # <<>>
    /\ received' = queue[Len(queue)]
    /\ queue' = SubSeq(queue, 1, Len(queue) - 1)
    /\ dequeued' = Append(dequeued, queue[Len(queue)])
    /\ trace' = Append(trace, "recv")
    /\ pc' = "lock"
    /\ UNCHANGED <<overflowChecks, arrow, lockHeld, poisoned, display, panel,
                   rxAlive, outcome>>
    /\ UNCHANGED bridgeVars
    /\ UNCHANGED shapeVars

\* line 208: rx's iterator yields the oldest message
Receive ==
    /\ pc = "recv"
    /\ queue # <<>>
    /\ received' = Head(queue)
    /\ queue' = Tail(queue)
    /\ dequeued' = Append(dequeued, Head(queue))
    /\ trace' = Append(trace, "recv")
    /\ pc' = "lock"
    /\ UNCHANGED <<overflowChecks, arrow, lockHeld, poisoned, display, panel,
                   rxAlive, outcome>>
    /\ UNCHANGED bridgeVars
    /\ UNCHANGED shapeVars

\* a loop that is left as soon as the channel is empty (a try_recv loop)
LoopExitWhenEmpty ==
    /\ pc = "recv"
    /\ queue = <<>>
    /\ rxAlive' = FALSE
    /\ trace' = Append(trace, "closed")
    /\ pc' = "sleep"
    /\ UNCHANGED <<overflowChecks, arrow, lockHeld, poisoned, display, panel,
                   queue, received, outcome, dequeued>>
    /\ UNCHANGED bridgeVars
    /\ UNCHANGED shapeVars

\* line 208: rx's iterator ends, which it does only when the channel is
\* empty and every Sender is gone; the loop is left and rx dropped
LoopExit ==
    /\ pc = "recv"
    /\ queue = <<>>
    /\ AllSendersDropped
    /\ rxAlive' = FALSE
    /\ trace' = Append(trace, "closed")
    /\ pc' = "sleep"
    /\ UNCHANGED <<overflowChecks, arrow, lockHeld, poisoned, display, panel,
                   queue, received, outcome, dequeued>>
    /\ UNCHANGED bridgeVars
    /\ UNCHANGED shapeVars

\* line 214: arrow_mutex.lock().unwrap(); nobody else ever takes the lock
Lock ==
    /\ pc = "lock"
    /\ ~lockHeld
    /\ IF poisoned
       THEN /\ MainPanics("lock_failed")
            /\ UNCHANGED <<arrow, display, panel, dequeued>>
       ELSE /\ lockHeld' = TRUE
            /\ trace' = Append(trace, "lock")
            /\ pc' = "apply"
            /\ UNCHANGED <<arrow, poisoned, display, panel, rxAlive, received,
                           outcome, dequeued>>
    /\ UNCHANGED <<overflowChecks, queue>>
    /\ UNCHANGED bridgeVars
    /\ UNCHANGED shapeVars

\* a match on `received` inside a block of its own, so that the guard is
\* dropped as soon as the message is applied
ApplyThenUnlock ==
    /\ pc = "apply"
    /\ IF ApplyPanics(arrow, received.msg, overflowChecks)
       THEN /\ MainPanics("apply_failed")
            /\ UNCHANGED <<arrow, display, panel, dequeued>>
       ELSE /\ arrow' = ApplyMessage(arrow, received.msg)
            /\ lockHeld' = FALSE
            /\ trace' = Append(trace, "apply")
            /\ pc' = "draw"
            /\ UNCHANGED <<poisoned, display, panel, rxAlive,
                           received, outcome, dequeued>>
    /\ UNCHANGED <<overflowChecks, queue>>
    /\ UNCHANGED bridgeVars
    /\ UNCHANGED shapeVars

\* lines 215-218: the match on `received`
Apply ==
    /\ pc = "apply"
    /\ IF ApplyPanics(arrow, received.msg, overflowChecks)
       THEN /\ MainPanics("apply_failed")
            /\ UNCHANGED <<arrow, display, panel, dequeued>>
       ELSE /\ arrow' = ApplyMessage(arrow, received.msg)
            /\ trace' = Append(trace, "apply")
            /\ pc' = "draw"
            /\ UNCHANGED <<lockHeld, poisoned, display, panel, rxAlive,
                           received, outcome, dequeued>>
    /\ UNCHANGED <<overflowChecks, queue>>
    /\ UNCHANGED bridgeVars
    /\ UNCHANGED shapeVars

\* a draw that returns the first primitive's error (`?`) to main
DrawPropagatesError(rectOk, triOk) ==
    /\ pc = "draw"
    /\ IF overflowChecks /\ DrawOverflows(arrow)
       THEN /\ MainPanics("draw_failed")
            /\ display' = ClearedBuffer
            /\ UNCHANGED <<arrow, panel, dequeued>>
       ELSE IF rectOk
            THEN /\ display' = DrawInto(arrow, rectOk, triOk)
                 /\ trace' = Append(trace, "draw")
                 /\ pc' = "update"
                 /\ UNCHANGED <<arrow, lockHeld, poisoned, panel, rxAlive,
                                received, outcome, dequeued>>
            ELSE /\ display' = ClearedBuffer
                 /\ lockHeld' = FALSE
                 /\ rxAlive' = FALSE
                 /\ outcome' = "err"
                 /\ trace' = Append(trace, "draw_failed")
                 /\ pc' = "teardown"
                 /\ UNCHANGED <<arrow, poisoned, panel, received, dequeued>>
    /\ UNCHANGED <<overflowChecks, queue>>
    /\ UNCHANGED bridgeVars
    /\ UNCHANGED shapeVars

\* line 219: arrow.draw(&mut display), the guard still alive
Draw(rectOk, triOk) ==
    /\ pc = "draw"
    /\ IF overflowChecks /\ DrawOverflows(arrow)
       THEN /\ MainPanics("draw_failed")
            /\ display' = ClearedBuffer
            /\ UNCHANGED <<arrow, panel, dequeued>>
       ELSE /\ display' = DrawInto(arrow, rectOk, triOk)
            /\ trace' = Append(trace, "draw")
            /\ pc' = "update"
            /\ UNCHANGED <<arrow, lockHeld, poisoned, panel, rxAlive, received,
                           outcome, dequeued>>
    /\ UNCHANGED <<overflowChecks, queue>>
    /\ UNCHANGED bridgeVars
    /\ UNCHANGED shapeVars

\* an update_frame whose result is discarded (`let _ =`)
UpdateFrameResultIgnored(ok) ==
    /\ pc = "update"
    /\ panel' = IF ok THEN [panel EXCEPT !.frame = display] ELSE panel
    /\ trace' = Append(trace,
                       IF ok THEN "update_frame" ELSE "update_frame_failed")
    /\ pc' = "display"
    /\ UNCHANGED <<lockHeld, rxAlive, received, outcome>>
    /\ UNCHANGED <<overflowChecks, arrow, poisoned, display, queue, dequeued>>
    /\ UNCHANGED bridgeVars
    /\ UNCHANGED shapeVars

\* line 220: epd2in7b.update_frame(..)?  An Err returns it from main: the
\* guard and rx are dropped without a panic
UpdateFrame(ok) ==
    /\ pc = "update"
    /\ IF ok
       THEN /\ panel' = [panel EXCEPT !.frame = display]
            /\ trace' = Append(trace, "update_frame")
            /\ pc' = "display"
            /\ UNCHANGED <<lockHeld, rxAlive, received, outcome>>
       ELSE /\ lockHeld' = FALSE
            /\ rxAlive' = FALSE
            /\ received' = NoEntry
            /\ outcome' = "err"
            /\ trace' = Append(trace, "update_frame_failed")
            /\ pc' = "teardown"
            /\ UNCHANGED panel
    /\ UNCHANGED <<overflowChecks, arrow, poisoned, display, queue, dequeued>>
    /\ UNCHANGED bridgeVars
    /\ UNCHANGED shapeVars

\* a display_frame after which the guard is leaked (mem::forget) instead of
\* dropped at the end of the loop body
DisplayFrameLeaksGuard(ok) ==
    /\ pc = "display"
    /\ IF ok
       THEN /\ panel' = [panel EXCEPT !.shown = panel.frame]
            /\ received' = NoEntry
            /\ trace' = Append(trace, "display_frame")
            /\ pc' = "recv"
            /\ UNCHANGED <<lockHeld, poisoned, rxAlive, outcome>>
       ELSE /\ MainPanics("display_frame_failed")
            /\ UNCHANGED panel
    /\ UNCHANGED <<overflowChecks, arrow, display, queue, dequeued>>
    /\ UNCHANGED bridgeVars
    /\ UNCHANGED shapeVars

\* lines 221-224: epd2in7b.display_frame(..).expect("displaying"), then the
\* end of the loop body, where the guard `arrow` goes out of scope
DisplayFrame(ok) ==
    /\ pc = "display"
    /\ IF ok
       THEN /\ panel' = [panel EXCEPT !.shown = panel.frame]
            /\ lockHeld' = FALSE
            /\ received' = NoEntry
            /\ trace' = Append(trace, "display_frame")
            /\ pc' = "recv"
            /\ UNCHANGED <<poisoned, rxAlive, outcome>>
       ELSE /\ MainPanics("display_frame_failed")
            /\ UNCHANGED panel
    /\ UNCHANGED <<overflowChecks, arrow, display, queue, dequeued>>
    /\ UNCHANGED bridgeVars
    /\ UNCHANGED shapeVars

\* lines 227-228: epd2in7b.sleep(..), whose result is main's result
Sleep(ok) ==
    /\ pc = "sleep"
    /\ panel' = [panel EXCEPT !.asleep = ok]
    /\ outcome' = IF ok THEN "ok" ELSE "err"
    /\ trace' = Append(trace, "sleep")
    /\ pc' = "teardown"
    /\ UNCHANGED <<overflowChecks, arrow, lockHeld, poisoned, display, queue,
                   rxAlive, received, dequeued>>
    /\ UNCHANGED bridgeVars
    /\ UNCHANGED shapeVars

\* main is left: its remaining locals are dropped, the two pins among them
\* (which ends their interrupt threads), and the process ends
Exit ==
    /\ pc = "teardown"
    /\ pc' = "exited"
    /\ txAlive' = [p \in Producers |-> FALSE]
    /\ pending' = [p \in Producers |-> <<>>]
    /\ UNCHANGED <<overflowChecks, queue, nInterrupts, sent, sendFailed>>
    /\ UNCHANGED <<arrow, lockHeld, poisoned, display, panel, rxAlive,
                   received, outcome, dequeued, trace>>
    /\ UNCHANGED shapeVars

Bridge ==
    \E p \in Producers :
        \/ \E level \in Levels : Interrupt(p, level)
        \/ Callback(p)
        \/ ProducerDropped(p)

ControlLoop ==
    \/ Receive
    \/ LoopExit
    \/ Lock
    \/ Apply
    \/ \E rectOk \in BOOLEAN, triOk \in BOOLEAN : Draw(rectOk, triOk)
    \/ \E ok \in BOOLEAN : UpdateFrame(ok)
    \/ \E ok \in BOOLEAN : DisplayFrame(ok)
    \/ \E ok \in BOOLEAN : Sleep(ok)
    \/ Exit

Next == Bridge \/ ControlLoop

Spec == Init /\ [][Next]_vars

(***************************************************************************)
(* SpecShape: the Shape Model in isolation.  An Arrow in any state the     *)
(* program can bring it to (every coordinate is 20 + 100k, |k| up to the   *)
(* last step that still fits an i32) receives rotate() and                 *)
(* move_forward(d) calls directly.                                         *)
(***************************************************************************)
\* the most MoveForward(100) steps away from 20 that an i32 still holds
MaxSteps == (I32Max - InitialRadius) \div MoveDistance

Coordinates ==
    { InitialRadius - (MaxSteps * MoveDistance),
      InitialRadius - MoveDistance,
      InitialRadius,
      InitialRadius + (MaxSteps * MoveDistance) }

\* the distances passed to move_forward: the program's own, the one of the
\* documented example, and their negations
Distances == { MoveDistance, -MoveDistance, 50, -50 }

\* the variables of the running program, at rest
ProgramIdle ==
    /\ lockHeld = FALSE
    /\ poisoned = FALSE
    /\ display = ClearedBuffer
    /\ panel = [frame |-> ClearedBuffer, shown |-> ClearedBuffer,
                asleep |-> FALSE]
    /\ queue = <<>>
    /\ rxAlive = TRUE
    /\ txAlive = [p \in Producers |-> FALSE]
    /\ pending = [p \in Producers |-> <<>>]
    /\ received = NoEntry
    /\ pc = "isolated"
    /\ outcome = "running"
    /\ nInterrupts = 0
    /\ sent = [p \in Producers |-> 0]
    /\ dequeued = <<>>
    /\ trace = <<>>
    /\ sendFailed = [p \in Producers |-> FALSE]

InitShape ==
    /\ overflowChecks \in BOOLEAN
    /\ arrow \in [x : Coordinates, y : Coordinates,
                  radius : {InitialRadius}, rotation : Headings]
    /\ start = arrow
    /\ ops = <<>>
    /\ halted = FALSE
    /\ ProgramIdle

\* arrow.rotate()
ShapeRotate ==
    /\ ~halted
    /\ Len(ops) < MaxOps
    /\ arrow' = rotate(arrow)
    /\ ops' = Append(ops, Rotate)
    /\ UNCHANGED <<overflowChecks, start, halted, queue>>
    /\ UNCHANGED <<lockHeld, poisoned, display, panel, rxAlive, received, pc,
                   outcome, dequeued, trace>>
    /\ UNCHANGED bridgeVars

\* arrow.move_forward(d): it returns with the coordinate written, or panics
\* on overflow (overflow checks on) and writes nothing
ShapeMoveForward(d) ==
    /\ ~halted
    /\ Len(ops) < MaxOps
    /\ ops' = Append(ops, MoveForward(d))
    /\ IF overflowChecks /\ MoveOverflows(arrow, d)
       THEN /\ halted' = TRUE
            /\ UNCHANGED arrow
       ELSE /\ arrow' = move_forward(arrow, d)
            /\ UNCHANGED halted
    /\ UNCHANGED <<overflowChecks, start, queue>>
    /\ UNCHANGED <<lockHeld, poisoned, display, panel, rxAlive, received, pc,
                   outcome, dequeued, trace>>
    /\ UNCHANGED bridgeVars

NextShape ==
    \/ ShapeRotate
    \/ \E d \in Distances : ShapeMoveForward(d)

SpecShape == InitShape /\ [][NextShape]_vars

(***************************************************************************)
(* Arrow::draw in isolation: one Arrow, drawn into an empty framebuffer,   *)
(* at the coordinates of SpecShape (the ends of the i32 range included).   *)
(***************************************************************************)

\* arrow.draw(&mut display), lines 39-89: the framebuffer is cleared and the
\* two primitives are drawn, their results discarded; an overflowing
\* coordinate panics when overflow checks are on
ShapeDraw(rectOk, triOk) ==
    /\ ~halted
    /\ IF overflowChecks /\ DrawOverflows(arrow)
       THEN /\ halted' = TRUE
            /\ display' = ClearedBuffer
       ELSE /\ display' = DrawInto(arrow, rectOk, triOk)
            /\ UNCHANGED halted
    /\ UNCHANGED <<overflowChecks, arrow, start, ops, queue>>
    /\ UNCHANGED <<lockHeld, poisoned, panel, rxAlive, received, pc,
                   outcome, dequeued, trace>>
    /\ UNCHANGED bridgeVars

NextDraw == \E rectOk \in BOOLEAN, triOk \in BOOLEAN : ShapeDraw(rectOk, triOk)

SpecDraw == InitShape /\ [][NextDraw]_vars

(***************************************************************************)
(* SpecQueue: the Control Loop alone.  The channel already holds a burst   *)
(* of messages and every Sender is gone, so the loop drains the queue and  *)
(* shuts down.                                                             *)
(***************************************************************************)
QueueMessages == { Rotate, MoveForward(MoveDistance), MoveForward(50) }

Bursts ==
    UNION { [1..k -> QueueMessages] : k \in 0..MaxQueue }

InitQueue ==
    /\ overflowChecks \in BOOLEAN
    /\ arrow \in [x : {InitialRadius},
                  y : {InitialRadius, InitialRadius - MoveDistance},
                  radius : {InitialRadius}, rotation : Headings]
    /\ lockHeld = FALSE
    /\ poisoned = FALSE
    /\ \E rectOk \in BOOLEAN, triOk \in BOOLEAN :
          /\ display = DrawInto(arrow, rectOk, triOk)
          /\ panel = [frame |-> display, shown |-> display, asleep |-> FALSE]
    /\ \E b \in Bursts :
          /\ queue = [i \in 1..Len(b) |-> Entry(b[i], "none", i, 0)]
          /\ ops = b
    /\ rxAlive = TRUE
    /\ txAlive = [p \in Producers |-> FALSE]
    /\ pending = [p \in Producers |-> <<>>]
    /\ received = NoEntry
    /\ pc = "recv"
    /\ outcome = "running"
    /\ nInterrupts = 0
    /\ sent = [p \in Producers |-> 0]
    /\ dequeued = <<>>
    /\ trace = <<>>
    /\ sendFailed = [p \in Producers |-> FALSE]
    /\ start = arrow
    /\ halted = FALSE

SpecQueue == InitQueue /\ [][ControlLoop]_vars

(***************************************************************************)
(* Vocabulary of the properties.                                           *)
(***************************************************************************)
\* how often v occurs in the sequence s
Count(s, v) == Cardinality({ i \in DOMAIN s : s[i] = v })

\* the messages of a sequence of queue entries
Messages(es) == [i \in DOMAIN es |-> es[i].msg]

\* the steps of one full cycle of the loop body, in program order
Cycle == <<"recv", "lock", "apply", "draw", "update_frame", "display_frame">>

\* the steps that end the main thread by an error or a panic
Failures ==
    {"lock_failed", "apply_failed", "draw_failed", "update_frame_failed",
     "display_frame_failed"}

\* how many received messages have been applied to the Arrow
NumApplied == Count(trace, "apply")

\* how many cycles ended with a completed display_frame
NumRefreshed == Count(trace, "display_frame")

\* messages enqueued so far, by both callbacks
TotalSent == sent["move"] + sent["rotate"]

\* rotate() / move_forward(d) applied one at a time, in order, to an Arrow
\* nobody else touches
RECURSIVE Sequentially(_, _)
Sequentially(a, ms) ==
    IF ms = <<>>
    THEN a
    ELSE Sequentially(
             IF Head(ms).kind = "Rotate"
                 THEN rotate(a)
                 ELSE move_forward(a, Head(ms).distance),
             Tail(ms))

\* the heading k quarter turns after h, in the order 0 -> 90 -> 180 -> 270 -> 0
TurnedBy(h, k) == (h + (90 * k)) % 360

(***************************************************************************)
(* Properties.                                                             *)
(***************************************************************************)

\* C1 (Spec): serialization fidelity.  Whatever the interleaving of the two
\* callbacks with each other and with the loop, the Arrow the loop holds is
\* always the initial Arrow with rotate()/move_forward(d) applied one at a
\* time, in dequeue order, for exactly the messages applied so far; no other
\* Arrow state is reachable.
C1_SerializationFidelity ==
    /\ NumApplied <= Len(dequeued)
    /\ arrow = Sequentially(ArrowNew(InitialRadius),
                            Messages(SubSeq(dequeued, 1, NumApplied)))

\* C1 witness: a burst from both buttons was consumed completely, in an
\* order that differs from the order of the presses.
C1_Witness ==
    /\ pc = "recv"
    /\ queue = <<>>
    /\ Len(dequeued) = 3
    /\ NumApplied = 3
    /\ \E i, j \in DOMAIN dequeued :
          /\ i < j
          /\ dequeued[i].src = "move"
          /\ dequeued[j].src = "rotate"
          /\ dequeued[i].t > dequeued[j].t

\* C2 (Spec): per-producer FIFO.  Two messages of the same callback are
\* dequeued in the order they were enqueued (which is the order of that
\* button's presses), without gaps; a pair dequeued against the order of the
\* presses always comes from two different buttons.
C2_PerProducerFifo ==
    \A i, j \in DOMAIN dequeued :
        i < j =>
            /\ dequeued[i].src = dequeued[j].src =>
                  /\ dequeued[i].seq < dequeued[j].seq
                  /\ dequeued[i].t < dequeued[j].t
                  /\ \A n \in 1..dequeued[j].seq :
                        \E k \in 1..j : /\ dequeued[k].src = dequeued[j].src
                                        /\ dequeued[k].seq = n
            /\ dequeued[i].t > dequeued[j].t =>
                  dequeued[i].src # dequeued[j].src

\* C2 witness: two messages of one button were dequeued in their order while
\* a message of the other button overtook a press that came before it.
C2_Witness ==
    \E i, j, k \in DOMAIN dequeued :
        /\ i < j
        /\ dequeued[i].src = dequeued[j].src
        /\ dequeued[i].seq + 1 = dequeued[j].seq
        /\ dequeued[k].src # dequeued[i].src
        /\ \/ (k < i /\ dequeued[k].t > dequeued[i].t)
           \/ (k > j /\ dequeued[k].t < dequeued[j].t)

\* C3 (Spec): exactly once, no batching.  Every enqueued message is in the
\* queue or was dequeued, never both and never twice; every receive takes
\* one message; the loop's steps are whole cycles recv, lock, apply, draw,
\* update_frame, display_frame in that order, so that back at the receive k
\* dequeued messages have been applied k times and shown by k refreshes.
C3_ExactlyOnceNoBatching ==
    /\ Len(dequeued) + Len(queue) = TotalSent
    /\ LET all == dequeued \o queue
       IN  \A i, j \in DOMAIN all :
               i # j => <<all[i].src, all[i].seq>> # <<all[j].src, all[j].seq>>
    /\ Count(trace, "recv") = Len(dequeued)
    /\ \A i \in DOMAIN trace :
          \/ trace[i] = Cycle[((i - 1) % Len(Cycle)) + 1]
          \/ (i = Len(trace) /\ trace[i] \in Failures)
          \/ (trace[i] = "closed" /\ (i - 1) % Len(Cycle) = 0
                /\ (i = Len(trace)
                      \/ (i = Len(trace) - 1 /\ trace[Len(trace)] = "sleep")))
          \/ (trace[i] = "sleep" /\ i = Len(trace) /\ i > 1
                /\ trace[i - 1] = "closed")
    /\ pc = "recv" =>
          /\ NumApplied = Len(dequeued)
          /\ Count(trace, "draw") = Len(dequeued)
          /\ Count(trace, "update_frame") = Len(dequeued)
          /\ NumRefreshed = Len(dequeued)

\* C3 witness: two messages have been dequeued and each got its own refresh
\* while a third one was already waiting in the queue.
C3_Witness ==
    /\ pc = "recv"
    /\ Len(dequeued) = 2
    /\ NumRefreshed = 2
    /\ Len(queue) = 1

\* C4 (Spec): orderly shutdown.  The loop is left without a failure only
\* when every Sender is gone and the queue is drained, and then it can be
\* left; the sleep command is issued only after that, never while a callback
\* is alive or an enqueued message is undelivered or not yet refreshed; and
\* main ends successfully exactly by a sleep command that succeeded.
C4_OrderlyShutdown ==
    /\ (pc = "recv" /\ queue = <<>> /\ AllSendersDropped) => ENABLED LoopExit
    /\ (pc = "recv" /\ ~(queue = <<>> /\ AllSendersDropped))
          => ~(ENABLED LoopExit)
    /\ pc \in {"sleep", "teardown", "exited"} =>
          \/ trace[Len(trace)] \in Failures
          \/ Count(trace, "closed") = 1
    /\ Count(trace, "sleep") = 1 => Count(trace, "closed") = 1
    /\ (pc = "sleep" \/ Count(trace, "closed") = 1) =>
          /\ AllSendersDropped
          /\ queue = <<>>
          /\ \A p \in Producers : pending[p] = <<>>
          /\ Len(dequeued) = TotalSent
          /\ NumApplied = TotalSent
          /\ NumRefreshed = TotalSent
          /\ \A i \in DOMAIN trace : trace[i] \notin Failures
    /\ outcome = "ok" <=> (Count(trace, "sleep") = 1 /\ panel.asleep)

\* C4 witness: after two messages were processed and both callbacks dropped,
\* the loop was left, the panel put to sleep and the process ended with Ok.
C4_Witness ==
    /\ pc = "exited"
    /\ outcome = "ok"
    /\ panel.asleep
    /\ Len(dequeued) = 2
    /\ trace[Len(trace)] = "sleep"

\* C5 (Spec): a runtime I/O failure is fatal.  A failed update_frame or
\* display_frame is the last step the main thread ever takes: main ends with
\* an error (update_frame) or a panic (display_frame), nothing is received
\* or applied afterwards, and the panel is not put to sleep.
C5_IoFailureFatal ==
    \A i \in DOMAIN trace :
        trace[i] \in {"update_frame_failed", "display_frame_failed"} =>
            /\ i = Len(trace)
            /\ pc \in {"teardown", "exited"}
            /\ outcome = IF trace[i] = "update_frame_failed"
                            THEN "err" ELSE "panic"
            /\ ~rxAlive
            /\ received = NoEntry
            /\ ~panel.asleep
            /\ Count(trace, "recv") = Len(dequeued)
            /\ NumApplied = Len(dequeued)
            /\ arrow = Sequentially(ArrowNew(InitialRadius),
                                    Messages(dequeued))

\* C5 witness: update_frame failed while another message was still queued;
\* the process is over and that message was never received.
C5_Witness ==
    /\ pc = "exited"
    /\ trace # <<>>
    /\ trace[Len(trace)] = "update_frame_failed"
    /\ outcome = "err"
    /\ queue # <<>>

\* C6 (SpecShape): rotate() steps through 0 -> 90 -> 180 -> 270 -> 0 and a
\* new Arrow heads 0: after k rotate() calls and nothing else the heading is
\* the start heading turned by k quarter turns, and it is the start heading
\* again exactly when k is a multiple of four.
C6_RotateCyclic ==
    /\ ArrowNew(InitialRadius).rotation = 0
    /\ arrow.rotation \in Headings
    /\ (\A i \in DOMAIN ops : ops[i] = Rotate) =>
          /\ arrow.rotation = TurnedBy(start.rotation, Len(ops))
          /\ (arrow.rotation = start.rotation) <=> (Len(ops) % 4 = 0)
          /\ arrow.x = start.x /\ arrow.y = start.y

\* C6 witness: four rotate() calls from heading 180 are back at 180.
C6_Witness ==
    /\ ops = <<Rotate, Rotate, Rotate, Rotate>>
    /\ start.rotation = 180
    /\ arrow.rotation = 180

\* C7 (SpecShape): move round trip.  For any heading, any anchor and any
\* distance d, move_forward(d) returns, and move_forward(-d) right after it
\* returns with the original (x, y).
C7_MoveRoundTrip ==
    \A d \in Distances :
        /\ ops = <<MoveForward(d)>> => ~halted
        /\ ops = <<MoveForward(d), MoveForward(-d)>> =>
              /\ ~halted
              /\ arrow.x = start.x
              /\ arrow.y = start.y

\* the anchor of `after` is the anchor of `before` displaced by exactly d
\* along the axis of before's heading (exact integers, not i32 arithmetic)
DisplacedExactly(before, after, d) ==
    CASE before.rotation = 0 ->
           /\ ~AddOverflows(before.y, d)
           /\ after.y = before.y + d
           /\ after.x = before.x
      [] before.rotation = 90 ->
           /\ ~SubOverflows(before.x, d)
           /\ after.x = before.x - d
           /\ after.y = before.y
      [] before.rotation = 180 ->
           /\ ~SubOverflows(before.y, d)
           /\ after.y = before.y - d
           /\ after.x = before.x
      [] before.rotation = 270 ->
           /\ ~AddOverflows(before.x, d)
           /\ after.x = before.x + d
           /\ after.y = before.y

\* C8 (SpecShape): move_forward(distance) returns with the anchor displaced
\* by exactly distance along the heading's axis: y + distance at 0,
\* x - distance at 90, y - distance at 180, x + distance at 270, for
\* positive and negative distances alike.
C8_MoveDisplacesExactly ==
    \A d \in Distances :
        ops = <<MoveForward(d)>> =>
            /\ ~halted
            /\ DisplacedExactly(start, arrow, d)
            /\ arrow.rotation = start.rotation

\* C9 (Spec): the Arrow built by Arrow::new(20) is at (20, 20), radius 20,
\* heading 0; once the loop has applied one Rotate and then one
\* MoveForward(100) it is at (-80, 20), heading 90.
C9_RotateThenMove ==
    /\ NumApplied = 0 =>
          arrow = [x |-> 20, y |-> 20, radius |-> 20, rotation |-> 0]
    /\ (Messages(dequeued) = <<Rotate, MoveForward(100)>> /\ NumApplied = 2) =>
          /\ arrow.rotation = 90
          /\ arrow.x = -80
          /\ arrow.y = 20
          /\ arrow.radius = 20

\* C9 witness: the loop has processed exactly a Rotate and then a
\* MoveForward(100) and is back at the receive.
C9_Witness ==
    /\ pc = "recv"
    /\ Messages(dequeued) = <<Rotate, MoveForward(100)>>
    /\ NumRefreshed = 2
    /\ arrow.x = -80

\* C10 (SpecQueue): a queue that first held [Rotate, Rotate,
\* MoveForward(50)], processed in order from heading 0, leaves heading 180
\* and the anchor moved by -50 along y, x unchanged.
C10_RotateRotateMove ==
    (/\ ops = <<Rotate, Rotate, MoveForward(50)>>
     /\ start.rotation = 0
     /\ NumApplied = 3) =>
        /\ Messages(dequeued) = ops
        /\ arrow.rotation = 180
        /\ arrow.y = start.y - 50
        /\ arrow.x = start.x

\* C10 witness: that queue has been drained and every message refreshed.
C10_Witness ==
    /\ ops = <<Rotate, Rotate, MoveForward(50)>>
    /\ start.rotation = 0
    /\ queue = <<>>
    /\ NumRefreshed = 3
    /\ arrow.rotation = 180

\* the unit direction of a heading: 0 is +y, 90 is -x, 180 is -y, 270 is +x
UnitOf(h) ==
    CASE h = 0   -> <<0, 1>>
      [] h = 90  -> <<-1, 0>>
      [] h = 180 -> <<0, -1>>
      [] h = 270 -> <<1, 0>>

\* the three vertices of a drawn triangle, in the order of Triangle::new
VertexOf(tri, i) == <<tri[(2 * i) - 1], tri[2 * i]>>

\* C11 (SpecDraw): head geometry follows the heading.  Whenever draw has put
\* the triangle of the Arrow (x, y, radius, h) into the framebuffer, its apex
\* (the second vertex) is the anchor plus radius * u(h), its two base
\* vertices are the anchor plus and minus radius on the perpendicular axis,
\* and move_forward(radius) carries the anchor exactly onto the apex, so u(h)
\* is the direction of travel.  The directions u(h) turn a quarter per
\* heading: consecutive headings are orthogonal, two steps apart opposite.
C11_HeadFollowsHeading ==
    /\ \A h \in Headings :
          LET u == UnitOf(h)
              v == UnitOf(TurnedBy(h, 1))
              w == UnitOf(TurnedBy(h, 2))
          IN  /\ (u[1] * v[1]) + (u[2] * v[2]) = 0
              /\ w = <<-u[1], -u[2]>>
    /\ display.tri # <<>> =>
          LET r    == arrow.radius
              u    == UnitOf(arrow.rotation)
              apex == VertexOf(display.tri, 2)
              base == {VertexOf(display.tri, 1), VertexOf(display.tri, 3)}
              fwd  == move_forward(arrow, r)
          IN  /\ apex = <<arrow.x + (r * u[1]), arrow.y + (r * u[2])>>
              /\ base = { <<arrow.x + (r * u[2]), arrow.y + (r * u[1])>>,
                          <<arrow.x - (r * u[2]), arrow.y - (r * u[1])>> }
              /\ ~MoveOverflows(arrow, r)
              /\ apex = <<fwd.x, fwd.y>>

\* C11 witness: the head was drawn for an Arrow heading 90 at the largest
\* coordinates the program can reach, although the shaft's draw failed.
C11_Witness ==
    /\ display.tri # <<>>
    /\ display.rect = <<>>
    /\ arrow.rotation = 90
    /\ arrow.x = InitialRadius + (MaxSteps * MoveDistance)
    /\ arrow.y = InitialRadius + (MaxSteps * MoveDistance)

\* C12 (Spec): edge filter.  An invocation of a button's callback that sees
\* Low appends exactly one event to the queue, MoveForward(100) for the move
\* button and Rotate for the rotate button (unless the receiver is gone, when
\* the send fails and nothing is appended, see C18); an invocation that sees
\* High leaves the queue as it is.  So every event in the queue is one of
\* these two values, and it is the one of the button that sent it.
C12_EdgeFilter ==
    [][ /\ \A p \in Producers :
              Callback(p) =>
                  IF Head(pending[p]).level = "Low" /\ rxAlive
                  THEN /\ Len(queue') = Len(queue) + 1
                       /\ SubSeq(queue', 1, Len(queue)) = queue
                       /\ queue'[Len(queue')].src = p
                       /\ sent'[p] = sent[p] + 1
                  ELSE /\ queue' = queue
                       /\ sent' = sent
        /\ \A i \in 1..Len(queue') :
              /\ queue'[i].src \in Producers
              /\ queue'[i].msg = IF queue'[i].src = "move"
                                     THEN [kind |-> "MoveForward",
                                           distance |-> 100]
                                     ELSE [kind |-> "Rotate", distance |-> 0]
      ]_vars

\* C12 witness: three interrupts were handled with both callbacks still
\* registered; two saw Low and each enqueued one event, one saw High and
\* enqueued nothing.
C12_Witness ==
    /\ nInterrupts = 3
    /\ \A p \in Producers : txAlive[p] /\ pending[p] = <<>>
    /\ sent["move"] = 1
    /\ sent["rotate"] = 1
    /\ Len(queue) + Len(dequeued) = 2

\* the main-thread steps of one iteration after the receive, in source order
StepsAfterReceive == <<"lock", "apply", "draw", "update_frame", "display_frame">>

\* C13 as stated (SpecQueue): the Arrow lock is released once the event is
\* applied, so it is not held when draw is called, nor during update_frame
\* and display_frame.
C13_LockReleasedBeforeDraw ==
    pc \in {"draw", "update", "display"} => ~lockHeld

\* C13 amended (SpecQueue): per received event the loop (1) acquires the
\* Arrow lock, (2) applies the event, (3) calls draw, (4) update_frame, then
\* (5) display_frame, each step directly after the one before it, and only
\* then releases the lock: the lock is held exactly from its acquisition to
\* the end of the iteration (or to the failure that ends main), so it is
\* held during draw and during the physical refresh.
C13_LockHeldThroughRefresh ==
    /\ lockHeld <=> pc \in {"apply", "draw", "update", "display"}
    /\ \A i \in 1..Len(trace) :
          /\ trace[i] = "lock" => i > 1 /\ trace[i - 1] = "recv"
          /\ \A k \in 2..Len(StepsAfterReceive) :
                trace[i] = StepsAfterReceive[k] =>
                    i > 1 /\ trace[i - 1] = StepsAfterReceive[k - 1]

\* C13 witness: in the second iteration the loop is about to refresh the
\* panel and still holds the lock.
C13_Witness ==
    /\ pc = "display"
    /\ lockHeld
    /\ NumRefreshed = 1
    /\ trace[Len(trace)] = "update_frame"

\* C14 (Spec): single mutator.  A step of an interrupt callback leaves the
\* Arrow, the framebuffer, the panel, the lock and the loop's position as
\* they are and at most appends one event to the queue.  The Arrow changes
\* only in the loop's apply step, under the lock, and the framebuffer only
\* in the loop's draw step; so while an iteration waits between its steps,
\* no step of any callback changes x, y, rotation or the framebuffer.
C14_SingleMutator ==
    [][ /\ \A p \in Producers :
              Callback(p) =>
                  /\ arrow' = arrow
                  /\ display' = display
                  /\ panel' = panel
                  /\ lockHeld' = lockHeld
                  /\ pc' = pc
                  /\ received' = received
                  /\ \/ queue' = queue
                     \/ /\ Len(queue') = Len(queue) + 1
                        /\ SubSeq(queue', 1, Len(queue)) = queue
        /\ arrow' # arrow => pc = "apply" /\ lockHeld /\ pc' = "draw"
        /\ display' # display => pc = "draw" /\ lockHeld
        /\ pc' = pc => arrow' = arrow /\ display' = display /\ panel' = panel
      ]_vars

\* C14 witness: two more events were enqueued while the first was being
\* processed; the Arrow and the framebuffer hold the effect of the first
\* event only.
C14_Witness ==
    /\ pc = "display"
    /\ lockHeld
    /\ Len(dequeued) = 1
    /\ Len(queue) = 2
    /\ arrow = ApplyMessage(ArrowNew(InitialRadius), received.msg)
    /\ display = DrawInto(arrow, TRUE, TRUE)

\* C15 (SpecQueue): frame conditions of the Shape Model.  Applying Rotate
\* changes the heading and leaves x, y and radius as they were; applying
\* MoveForward(d) leaves heading and radius as they were and changes only
\* the coordinate on the heading's axis (y at 0 and 180, x at 90 and 270);
\* draw changes no field of the Arrow.  No step changes radius, which keeps
\* the value it was constructed with.
C15_FrameConditions ==
    [][ /\ (pc = "apply" /\ pc' = "draw" /\ received.msg.kind = "Rotate") =>
              /\ arrow'.rotation # arrow.rotation
              /\ arrow'.x = arrow.x
              /\ arrow'.y = arrow.y
              /\ arrow'.radius = arrow.radius
        /\ (pc = "apply" /\ pc' = "draw"
               /\ received.msg.kind = "MoveForward") =>
              /\ arrow'.rotation = arrow.rotation
              /\ arrow'.radius = arrow.radius
              /\ IF arrow.rotation \in {0, 180}
                 THEN arrow'.x = arrow.x /\ arrow'.y # arrow.y
                 ELSE arrow'.y = arrow.y /\ arrow'.x # arrow.x
        /\ pc = "draw" => arrow' = arrow
        /\ arrow'.radius = arrow.radius
        /\ arrow'.radius = InitialRadius
      ]_vars

\* C15 witness: a Rotate and a MoveForward were applied and drawn; heading
\* and one coordinate differ from the start, radius does not.
C15_Witness ==
    /\ pc = "update"
    /\ NumApplied = 2
    /\ Len(ops) >= 2
    /\ ops[1].kind = "Rotate"
    /\ ops[2].kind = "MoveForward"
    /\ arrow.rotation # start.rotation
    /\ (arrow.x # start.x) # (arrow.y # start.y)
    /\ arrow.radius = start.radius

\* C16 (SpecQueue): draw failures are swallowed.  Whatever the results of the
\* two primitive draws, the draw step starts from a cleared framebuffer and
\* leaves in it the shaft of the current Arrow or nothing, and the head of
\* the current Arrow or nothing, the head independently of the shaft; it
\* leaves the Arrow and main's outcome as they are and the loop goes on to
\* update_frame.  draw is never a step at which main fails.
C16_DrawFailuresSwallowed ==
    [][ /\ pc = "draw" =>
              /\ pc' = "update"
              /\ trace' = Append(trace, "draw")
              /\ arrow' = arrow
              /\ outcome' = outcome
              /\ rxAlive' = rxAlive
              /\ display'.rect \in {<<>>, ShaftOf(arrow)}
              /\ display'.tri \in {<<>>, HeadOf(arrow)}
        /\ Count(trace', "draw_failed") = 0
      ]_vars

\* C16 witness: in the first iteration the shaft's draw failed and the head
\* was drawn all the same; the loop refreshed the panel with that frame and
\* has received the next event.
C16_Witness ==
    /\ pc = "lock"
    /\ NumRefreshed = 1
    /\ Len(dequeued) = 2
    /\ display.rect = <<>>
    /\ display.tri = HeadOf(arrow)
    /\ panel.shown = display
    /\ outcome = "running"

\* C17 (Spec): non-blocking enqueue.  A callback that has been invoked can
\* always take its step: whatever the number of events already queued,
\* wherever the loop is in its iteration and whether or not the Arrow lock
\* is held.  While the Receiver exists, a callback that saw Low has its
\* event in the queue after that step: every event sent is queued or was
\* received, none is dropped.
C17_EnqueueNeverBlocks ==
    /\ \A p \in Producers :
          (txAlive[p] /\ pending[p] # <<>>) => ENABLED Callback(p)
    /\ TotalSent = Len(queue) + Len(dequeued)

\* C17 witness: a Low interrupt of the move button waits to be handled while
\* the loop holds the Arrow lock in the middle of a refresh and another
\* event is already queued.
C17_Witness ==
    /\ pc = "display"
    /\ lockHeld
    /\ rxAlive
    /\ Len(queue) = 1
    /\ txAlive["move"]
    /\ pending["move"] # <<>>
    /\ Head(pending["move"]).level = "Low"

\* C18 (Spec): enqueue failure is fatal.  A callback that sees Low when the
\* Receiver has been dropped does not return normally: its send fails, the
\* failure is recorded, nothing is queued or counted as sent, and that
\* callback never runs again.  The Receiver is dropped only when main has
\* left the loop, so this happens only while the process is ending.
C18_SendFailureFatal ==
    [][ /\ \A p \in Producers :
              (Callback(p) /\ Head(pending[p]).level = "Low" /\ ~rxAlive) =>
                  /\ sendFailed'[p]
                  /\ ~txAlive'[p]
                  /\ queue' = queue
                  /\ sent' = sent
                  /\ pc \in {"teardown"}
        /\ \A p \in Producers :
              sendFailed[p] =>
                  /\ sendFailed'[p]
                  /\ ~txAlive'[p]
                  /\ pending'[p] = <<>>
                  /\ sent'[p] = sent[p]
        /\ \A p \in Producers :
              (sendFailed'[p] /\ ~sendFailed[p]) =>
                  /\ Callback(p)
                  /\ ~rxAlive
                  /\ Head(pending[p]).level = "Low"
      ]_vars

\* C18 witness: main has left the loop on a display failure, the move
\* button was pressed before its pin was released, and the callback's send
\* failed.
C18_Witness ==
    /\ sendFailed["move"]
    /\ ~txAlive["move"]
    /\ ~rxAlive
    /\ outcome \in {"err", "panic"}
    /\ sent["move"] = 0

\* the exact displacement <<dx, dy>>, over the integers, of the operations
\* ms applied from heading h
RECURSIVE ExactDisplacement(_, _)
ExactDisplacement(h, ms) ==
    IF ms = <<>>
    THEN <<0, 0>>
    ELSE IF Head(ms).kind = "Rotate"
         THEN ExactDisplacement(TurnedBy(h, 1), Tail(ms))
         ELSE LET u    == UnitOf(h)
                  rest == ExactDisplacement(h, Tail(ms))
              IN  <<(u[1] * Head(ms).distance) + rest[1],
                    (u[2] * Head(ms).distance) + rest[2]>>

\* C19 as stated (SpecShape): unbounded, unclamped position.  After any
\* sequence of operations no operation has failed, x is the start's x plus
\* the exact signed sum of the distances applied at 270 (positive) and 90
\* (negative), and y is the start's y plus the exact signed sum of the
\* distances applied at 0 (positive) and 180 (negative): the sums are
\* representable and the coordinates never wrap.
C19_ExactUnboundedPosition ==
    LET d == ExactDisplacement(start.rotation, ops)
    IN  /\ ~halted
        /\ ~AddOverflows(start.x, d[1])
        /\ ~AddOverflows(start.y, d[2])
        /\ arrow.x = start.x + d[1]
        /\ arrow.y = start.y + d[2]

(***************************************************************************)
(* FairSpec: the program with no failing display operation (the primitive *)
(* draws into the framebuffer, update_frame, display_frame and sleep all   *)
(* return Ok) and the main thread scheduled fairly: it does not stop for   *)
(* ever at a statement it can execute.  Blocked in `for received in rx`    *)
(* with an empty queue and a Sender alive it has no step, and fairness     *)
(* asks for none.  Nothing is assumed of the buttons or of the callbacks'  *)
(* scheduling.                                                             *)
(***************************************************************************)
InitFair ==
    /\ Init
    /\ display = DrawInto(ArrowNew(InitialRadius), TRUE, TRUE)

\* the loop's steps, every operation on the display returning Ok
ControlLoopIoOk ==
    \/ Receive
    \/ LoopExit
    \/ Lock
    \/ Apply
    \/ Draw(TRUE, TRUE)
    \/ UpdateFrame(TRUE)
    \/ DisplayFrame(TRUE)
    \/ Sleep(TRUE)
    \/ Exit

NextIoOk == Bridge \/ ControlLoopIoOk

FairSpec == InitFair /\ [][NextIoOk]_vars /\ WF_vars(ControlLoopIoOk)

\* the event sent for the t-th interrupt is in the queue
Enqueued(t) == \E i \in 1..Len(queue) : queue[i].t = t

\* the event sent for the t-th interrupt was dequeued, applied to the Arrow,
\* and the display_frame of its iteration has completed
Handled(t) ==
    \E i \in 1..Len(dequeued) :
        /\ dequeued[i].t = t
        /\ NumApplied >= i
        /\ NumRefreshed >= i

\* C20 (FairSpec): liveness.  With the main thread scheduled fairly and no
\* failing display operation, every event a callback has enqueued is
\* eventually dequeued, applied to the Arrow and followed by a completed
\* display_frame.  In particular the loop does not wait for ever in its
\* receive with an event queued: the head of the queue is eventually
\* dequeued.
C20_EveryEventHandled ==
    \A t \in 1..MaxInterrupts : Enqueued(t) ~> Handled(t)

\* C20 witness: every interrupt the model allows was a press, from both
\* buttons, and all their events were handled.
C20_Witness ==
    /\ TotalSent = MaxInterrupts
    /\ sent["move"] >= 1
    /\ sent["rotate"] >= 1
    /\ \A t \in 1..MaxInterrupts : Handled(t)
    /\ queue = <<>>
    /\ pc = "recv"

====
